---- MODULE Spec2Model ----
(***************************************************************************)
(* Model of the workstation bootstrap tool (src/src/main.rs).              *)
(*                                                                         *)
(* main reads the configuration, setup spawns one thread per package and   *)
(* joins them in order; each thread runs install_package: fetch, extract   *)
(* (archives only), install.  The network, the archive decoders and the    *)
(* file system are the environment: their answers are chosen at the step   *)
(* that asks for them.                                                     *)
(***************************************************************************)
EXTENDS Integers, Sequences, FiniteSets, TLC

VARIABLES
    mainpc,     \* position of the main thread
    cfgfile,    \* what reading and parsing the config file gave
    config,     \* the parsed Config (location, packages)
    next,       \* loop index of setup's spawn loop, then of its join loop
    upc,        \* upc[i]: position of the thread of package i
    fault,      \* fault[i]: the I/O fault the environment injected into unit i
    body,       \* body[i]: the response body the server holds for package i
    dl,         \* dl[i]: what download_with_progress returned
    data,       \* data[i]: the bytes handed to install
    err,        \* err[i]: the error install_package returned
    pb,         \* pb[i]: the progress bar of package i
    decoded,    \* decoded[i]: the unit started decoding an archive
    fsops,      \* fsops[i]: file operations of install done by unit i (0..3)
    fs,         \* the file system: path -> file
    fs0,        \* the file system before the run
    hpc,        \* position of the function harness
    hin,        \* inputs of the function harness
    hout        \* result of the function harness

vars == <<mainpc, cfgfile, config, next, upc, fault, body, dl, data, err, pb,
          decoded, fsops, fs, fs0, hpc, hin, hout>>

(***************************************************************************)
(* Bounds                                                                  *)
(***************************************************************************)
MaxPackages == 2

Units == 1..MaxPackages

(***************************************************************************)
(* Paths: a path is its sequence of components; an absolute path starts    *)
(* with the root component "/".                                            *)
(***************************************************************************)
HomeDir == <<"/", "home", "me">>

BobDir == <<"/", "home", "bob">>

NoHome == <<>>

IsAbsolute(p) == p # <<>> /\ p[1] = "/"

\* PathBuf::join: an absolute argument replaces the path
Join(p, q) == IF IsAbsolute(q) THEN q ELSE p \o q

\* "~user" components and the account database (bob exists, eve does not)
TildeUser == {"~bob", "~eve"}

UserDir(c) == IF c = "~bob" THEN BobDir ELSE NoHome

OkPath(p) == [ok |-> TRUE, path |-> p]

ErrPath == [ok |-> FALSE, path |-> <<>>]

\* expanduser::expanduser, with home the home directory of the current user
\* (NoHome when it cannot be determined)
expanduser(home, p) ==
    IF p = <<"~">> THEN
        IF home = NoHome THEN ErrPath ELSE OkPath(home)
    ELSE IF p # <<>> /\ p[1] = "~" THEN
        IF home = NoHome THEN ErrPath ELSE OkPath(Join(home, Tail(p)))
    ELSE IF p # <<>> /\ p[1] \in TildeUser THEN
        IF UserDir(p[1]) = NoHome THEN ErrPath
        ELSE OkPath(Join(UserDir(p[1]), Tail(p)))
    ELSE OkPath(p)

\* mutant: the joined path is returned without the home expansion
get_install_path_noexpand(home, location, name) ==
    OkPath(Join(location, name))

get_install_path(home, location, name) ==
    expanduser(home, Join(location, name))

(***************************************************************************)
(* Archives.  The bytes of an archive are modelled by what the decoders    *)
(* find in them: a sequence of items, each with a header (readable or      *)
(* not), a path (a sequence of characters), a stored mode and content      *)
(* (readable or not).  <<>> is the buffer of zero bytes.                   *)
(***************************************************************************)
Item(p, d, m) == [hdrok |-> TRUE, path |-> p, data |-> d, dataok |-> TRUE, mode |-> m]

BadHeaderItem == [hdrok |-> FALSE, path |-> <<>>, data |-> <<>>, dataok |-> FALSE, mode |-> 0]

BadDataItem(p) == [hdrok |-> TRUE, path |-> p, data |-> <<>>, dataok |-> FALSE, mode |-> 0]

Found(d) == [st |-> "found", data |-> d]

NotFound == [st |-> "notfound", data |-> <<>>]

Panic == [st |-> "panic", data |-> <<>>]

Corrupt == [st |-> "corrupt", data |-> <<>>]

ReadErr == [st |-> "readerr", data |-> <<>>]

\* Path::ends_with on character sequences
EndsWith(p, q) ==
    /\ Len(q) <= Len(p)
    /\ \A k \in 1..Len(q) : p[Len(p) - Len(q) + k] = q[k]

\* mutant: the entry is matched by suffix, not by equality
PathMatches_suffix(p, bin) == EndsWith(p, bin)

\* the predicate of find: entry.path().to_str() == bin
PathMatches(p, bin) == p = bin

\* Iterator::find over archive.entries(): the index of the first entry whose
\* path matches, 0 when the entries are exhausted, -1 when an entry that is
\* reached cannot be read (expect("entry exists") panics)
RECURSIVE TarFind(_, _, _)
TarFind(items, bin, k) ==
    IF k > Len(items) THEN 0
    ELSE IF ~items[k].hdrok THEN -1
    ELSE IF PathMatches(items[k].path, bin) THEN k
    ELSE TarFind(items, bin, k + 1)

\* the .tar.gz branch of install_package up to the call of install: the set
\* of outcomes.  A buffer of zero bytes is either read as an archive without
\* entries or rejected by the gzip decoder at the first entry.
ExtractTar(bytes, bin) ==
    IF bytes = <<>> THEN {NotFound, Panic}
    ELSE LET k == TarFind(bytes, bin, 1) IN
        IF k = -1 THEN {Panic}
        ELSE IF k = 0 THEN {NotFound}
        ELSE IF ~bytes[k].dataok THEN {Panic}
        ELSE {Found(bytes[k].data)}

\* ZipArchive::by_name: the index maps a name to the last entry stored
\* under it; 0 when there is none
ZipByName(items, bin) ==
    LET M == {k \in 1..Len(items) : PathMatches(items[k].path, bin)} IN
    IF M = {} THEN 0 ELSE CHOOSE k \in M : \A j \in M : j <= k

\* the .zip branch of install_package up to the call of install
ExtractZip(bytes, bin) ==
    IF bytes = <<>> \/ \E k \in 1..Len(bytes) : ~bytes[k].hdrok THEN {Corrupt}
    ELSE LET k == ZipByName(bytes, bin) IN
        IF k = 0 THEN {NotFound}
        ELSE IF ~bytes[k].dataok THEN {ReadErr}
        ELSE {Found(bytes[k].data)}

(***************************************************************************)
(* Configuration                                                           *)
(***************************************************************************)
TarGz == ".tar.gz"

Zip == ".zip"

Rar == ".rar"

\* a URL is its host-and-path and its suffix; ends_with looks at the suffix
Url(n, suffix) == [base |-> n, suffix |-> suffix]

ends_with(url, suffix) == url.suffix = suffix

Binary(n) == [kind |-> "Binary", name |-> n, bin |-> <<>>, url |-> Url(n, "")]

Archive(n, b, suffix) == [kind |-> "Archive", name |-> n, bin |-> b, url |-> Url(n, suffix)]

Names == {"a", "b"}

Foo == <<"f">>

FooBin == <<"f", "x">>

BinFoo == <<"d", "f">>

PackageConfig ==
    {Binary(n) : n \in Names}
        \cup {Archive(n, Foo, s) : n \in Names, s \in {TarGz, Zip, Rar}}

\* the package lists of at most MaxPackages packages
PackageLists == UNION {[1..n -> PackageConfig] : n \in 1..MaxPackages}

Locations == {<<"~", "bin">>, <<"~eve", "bin">>}

Config == [location : Locations, packages : PackageLists]

NoConfig == [location |-> <<>>, packages |-> <<>>]

\* PackageConfig::name
name(pkg) == pkg.name

(***************************************************************************)
(* The servers: what the URL of package i holds                            *)
(***************************************************************************)
Payload(i) == [k \in 1..i |-> i]

\* 0o755, the mode install sets
Mode755 == 493

\* the mode of a file that fs::write creates (0o666 under the usual umask 022)
CreateMode == 420

GoodArchive(i) ==
    <<Item(FooBin, <<7>>, 420), Item(BinFoo, <<8>>, 420),
      Item(Foo, Payload(i), 384), Item(Foo, <<9>>, 420)>>

NoMatchArchive == <<Item(FooBin, <<7>>, 420), Item(BinFoo, <<8>>, 420)>>

BadHeaderArchive == <<Item(FooBin, <<7>>, 420), BadHeaderItem, Item(Foo, <<9>>, 420)>>

BadDataArchive == <<BadDataItem(Foo)>>

LateCorruptArchive(i) == <<Item(Foo, Payload(i), 420), BadHeaderItem>>

Bodies(i, pkg) ==
    IF pkg.kind = "Binary" THEN {Payload(i)}
    ELSE {GoodArchive(i), NoMatchArchive, BadHeaderArchive, BadDataArchive,
          LateCorruptArchive(i)}

\* Content-Length of a body
Size(b) == Len(b)

(***************************************************************************)
(* The file system                                                         *)
(***************************************************************************)
Absent == [exists |-> FALSE, content |-> <<>>, mode |-> 0]

OldFile == [exists |-> TRUE, content |-> <<5, 5, 5>>, mode |-> 256]

FsPaths ==
    {get_install_path(HomeDir, l, <<n>>).path : l \in {<<"~", "bin">>}, n \in Names}

\* mutant: the file is opened with the executable mode already set
Truncate_exec(f) == [exists |-> TRUE, content |-> <<>>, mode |-> Mode755]

\* File::create: the file is created or truncated; an existing file keeps its mode
Truncate(f) ==
    [exists |-> TRUE, content |-> <<>>,
     mode |-> IF f.exists THEN f.mode ELSE CreateMode]

\* write_all at offset 0 of a descriptor opened before: the bytes replace the
\* head of whatever the file holds by now
Overwrite(old, d) ==
    [k \in 1..(IF Len(old) > Len(d) THEN Len(old) ELSE Len(d)) |->
        IF k <= Len(d) THEN d[k] ELSE old[k]]

(***************************************************************************)
(* Progress bars                                                           *)
(***************************************************************************)
Msg(kind, n, e) == [kind |-> kind, name |-> n, err |-> e]

NoBar == [len |-> 0, pos |-> 0, msg |-> Msg("none", "", ""), finished |-> FALSE]

NoDl == [st |-> "none", bytes |-> <<>>]

(***************************************************************************)
(* Initial state: the process has started, nothing is read yet             *)
(***************************************************************************)
HarnessIdle ==
    /\ hpc = "off"
    /\ hin = <<>>
    /\ hout = <<>>

ProgramAt(pc) ==
    /\ mainpc = pc
    /\ cfgfile = "unread"
    /\ config = NoConfig
    /\ next = 0
    /\ upc = [i \in Units |-> "unspawned"]
    /\ fault = [i \in Units |-> "none"]
    /\ body = [i \in Units |-> <<>>]
    /\ dl = [i \in Units |-> NoDl]
    /\ data = [i \in Units |-> <<>>]
    /\ err = [i \in Units |-> ""]
    /\ pb = [i \in Units |-> NoBar]
    /\ decoded = [i \in Units |-> FALSE]
    /\ fsops = [i \in Units |-> 0]
    /\ fs0 \in {[p \in FsPaths |-> Absent], [p \in FsPaths |-> OldFile]}
    /\ fs = fs0

Init == ProgramAt("start") /\ HarnessIdle

unitvars == <<upc, fault, body, dl, data, err, pb, decoded, fsops>>

hvars == <<hpc, hin, hout>>

(***************************************************************************)
(* main                                                                    *)
(***************************************************************************)
\* mutant: an unreadable config file is replaced by a default configuration
main_default(f) ==
    /\ cfgfile' = f
    /\ config' = [location |-> <<"~", "bin">>, packages |-> <<Binary("a")>>]
    /\ mainpc' = "spawn"
    /\ next' = 1

\* read_to_string(..).unwrap() or toml::from_str(..).unwrap() panics
main_unwrap_panics(f) ==
    /\ cfgfile' = f
    /\ config' = config
    /\ mainpc' = "panicked"
    /\ next' = next

main_config_fails ==
    /\ mainpc = "start"
    /\ \E f \in {"missing", "unreadable", "unparsable"} : main_unwrap_panics(f)
    /\ UNCHANGED <<unitvars, fs, fs0, hvars>>

main_config_parsed ==
    /\ mainpc = "start"
    /\ \E c \in Config :
        /\ cfgfile' = "ok"
        /\ config' = c
    /\ mainpc' = "spawn"
    /\ next' = 1
    /\ UNCHANGED <<unitvars, fs, fs0, hvars>>

(***************************************************************************)
(* setup                                                                   *)
(***************************************************************************)
Packages == config.packages

\* the units of the packages of the configuration
Launched == 1..Len(Packages)

\* the threads run as long as the process does
Running == mainpc \in {"spawn", "join"}

Terminal == {"done", "failed", "panicked"}

\* one iteration of the first loop: the bar is created and the thread spawned
setup_spawn ==
    /\ mainpc = "spawn"
    /\ next <= Len(Packages)
    /\ upc' = [upc EXCEPT ![next] = "send"]
    /\ pb' = [pb EXCEPT ![next] =
                [NoBar EXCEPT !.msg = Msg("Installing", name(Packages[next]), "")]]
    /\ next' = next + 1
    /\ UNCHANGED <<mainpc, cfgfile, config, fault, body, dl, data, err, decoded,
                   fsops, fs, fs0, hvars>>

setup_spawned_all ==
    /\ mainpc = "spawn"
    /\ next > Len(Packages)
    /\ mainpc' = "join"
    /\ next' = 1
    /\ UNCHANGED <<cfgfile, config, unitvars, fs, fs0, hvars>>

\* handle.join().unwrap(): a thread that panicked makes the main thread panic
join_unwrap(r) ==
    IF r = "panicked"
    THEN mainpc' = "panicked" /\ next' = next
    ELSE mainpc' = mainpc /\ next' = next + 1

\* one iteration of the second loop: blocks until the thread has ended
setup_join ==
    /\ mainpc = "join"
    /\ next <= Len(Packages)
    /\ upc[next] \in Terminal
    /\ join_unwrap(upc[next])
    /\ UNCHANGED <<cfgfile, config, unitvars, fs, fs0, hvars>>

\* setup returns, main returns, the process exits
setup_returns ==
    /\ mainpc = "join"
    /\ next > Len(Packages)
    /\ mainpc' = "exited"
    /\ UNCHANGED <<cfgfile, config, next, unitvars, fs, fs0, hvars>>

(***************************************************************************)
(* download_with_progress                                                  *)
(***************************************************************************)
Responses == {"http", "status", "nolen", "ok"}

\* mutant: the status of the response is not looked at
download_check_nostatus(r) ==
    IF r = "http" THEN "Http"
    ELSE IF r = "nolen" THEN "NoContentLength"
    ELSE ""

\* mutant: a response without content length is read all the same
download_check_nolength(r) ==
    IF r = "http" THEN "Http"
    ELSE IF r = "status" THEN "Status"
    ELSE ""

\* send()?, the status check and the content length: the error the response
\* r ends the fetch with, "" when the fetch goes on to the body
download_check(r) ==
    IF r = "http" THEN "Http"
    ELSE IF r = "status" THEN "Status"
    ELSE IF r = "nolen" THEN "NoContentLength"
    ELSE ""

\* the loop over response.bytes().into_iter(): the iterator of a Result
\* yields the body when reading it succeeded and nothing when it failed, so
\* the buffer stays empty on an I/O error
read_body(b, ioerror) == IF ioerror THEN <<>> ELSE b

\* mutant: the position is reported before the chunk is counted
downloaded_before(pos, chunk) == pos

\* downloaded += chunk.len(), the position set_position reports
downloaded(pos, chunk) == pos + Len(chunk)

\* the closure of the thread on Err(e): the bar is finished with the error
Fail(i, e) ==
    /\ upc' = [upc EXCEPT ![i] = "failed"]
    /\ err' = [err EXCEPT ![i] = e]
    /\ pb' = [pb EXCEPT ![i].msg = Msg("Error", name(Packages[i]), e),
                        ![i].finished = TRUE]

\* the request is sent and the head of the response arrives
download_send(i) ==
    /\ Running
    /\ upc[i] = "send"
    /\ \E r \in Responses, b \in Bodies(i, Packages[i]) :
        /\ fault' = [fault EXCEPT ![i] = IF r = "ok" THEN "none" ELSE r]
        /\ IF download_check(r) # ""
           THEN /\ Fail(i, download_check(r))
                /\ dl' = [dl EXCEPT ![i] = [st |-> "err", bytes |-> <<>>]]
                /\ body' = body
           ELSE /\ body' = [body EXCEPT ![i] = b]
                /\ pb' = [pb EXCEPT ![i].len = Size(b)]
                /\ upc' = [upc EXCEPT ![i] = "body"]
                /\ UNCHANGED <<dl, err>>
    /\ UNCHANGED <<mainpc, cfgfile, config, next, data, decoded, fsops, fs, fs0, hvars>>

\* the body is read, download_with_progress returns Ok(buf) and
\* install_package finishes the bar with "Downloaded <name>"
download_body(i) ==
    /\ Running
    /\ upc[i] = "body"
    /\ \E ioerror \in BOOLEAN :
        LET buf == read_body(body[i], ioerror) IN
        /\ fault' = [fault EXCEPT ![i] = IF ioerror THEN "bodyio" ELSE @]
        /\ dl' = [dl EXCEPT ![i] = [st |-> "ok", bytes |-> buf]]
        /\ pb' = [pb EXCEPT ![i].pos = IF ioerror THEN @ ELSE downloaded(@, buf),
                            ![i].msg = Msg("Downloaded", name(Packages[i]), ""),
                            ![i].finished = TRUE]
        /\ data' = [data EXCEPT ![i] = IF Packages[i].kind = "Binary" THEN buf ELSE @]
    /\ upc' = [upc EXCEPT ![i] = IF Packages[i].kind = "Binary" THEN "open" ELSE "extract"]
    /\ UNCHANGED <<mainpc, cfgfile, config, next, body, err, decoded, fsops, fs, fs0, hvars>>

(***************************************************************************)
(* install_package: the archive branch                                     *)
(***************************************************************************)
\* mutant: every suffix other than .tar.gz is taken for a zip archive
container_kind_zipdefault(url) ==
    IF ends_with(url, TarGz) THEN "tar" ELSE "zip"

\* the if / else if / else over archive.ends_with
container_kind(url) ==
    IF ends_with(url, TarGz) THEN "tar"
    ELSE IF ends_with(url, Zip) THEN "zip"
    ELSE "unsupported"

\* the outcomes of the decoder the suffix selects
Extract(kind, bytes, bin) ==
    IF kind = "tar" THEN ExtractTar(bytes, bin) ELSE ExtractZip(bytes, bin)

\* the error of an outcome that is not a found entry
ExtractError(o) ==
    IF o.st = "notfound" THEN "EntryNotFound"
    ELSE IF o.st = "corrupt" THEN "Corrupt"
    ELSE "EntryRead"

install_package_unsupported(i) ==
    /\ Running
    /\ upc[i] = "extract"
    /\ container_kind(Packages[i].url) = "unsupported"
    /\ Fail(i, "Unsupported")
    /\ UNCHANGED <<mainpc, cfgfile, config, next, fault, body, dl, data, decoded,
                   fsops, fs, fs0, hvars>>

install_package_extract(i) ==
    /\ Running
    /\ upc[i] = "extract"
    /\ container_kind(Packages[i].url) # "unsupported"
    /\ decoded' = [decoded EXCEPT ![i] = TRUE]
    /\ \E o \in Extract(container_kind(Packages[i].url), dl[i].bytes, Packages[i].bin) :
        IF o.st = "found"
        THEN /\ data' = [data EXCEPT ![i] = o.data]
             /\ upc' = [upc EXCEPT ![i] = "open"]
             /\ UNCHANGED <<err, pb>>
        ELSE IF o.st = "panic"
        THEN /\ upc' = [upc EXCEPT ![i] = "panicked"]
             /\ UNCHANGED <<data, err, pb>>
        ELSE /\ Fail(i, ExtractError(o))
             /\ data' = data
    /\ UNCHANGED <<mainpc, cfgfile, config, next, fault, body, dl, fsops, fs, fs0, hvars>>

(***************************************************************************)
(* install                                                                 *)
(***************************************************************************)
\* mutant: the mode is set only on a file that install created
SetPermissions_newonly(f, before) ==
    IF before.exists THEN f ELSE [f EXCEPT !.mode = Mode755]

\* set_permissions(&path, from_mode(0o755)) on file f; before is the file as
\* install found it
SetPermissions(f, before) == [f EXCEPT !.mode = Mode755]

InstallPath(i) == get_install_path(HomeDir, config.location, <<name(Packages[i])>>)

\* get_install_path failed
install_path_fails(i) ==
    /\ Running
    /\ upc[i] = "open"
    /\ ~InstallPath(i).ok
    /\ Fail(i, "PathResolution")
    /\ UNCHANGED <<mainpc, cfgfile, config, next, fault, body, dl, data, decoded,
                   fsops, fs, fs0, hvars>>

\* fs::write, first half: the file is created or truncated
install_open(i) ==
    /\ Running
    /\ upc[i] = "open"
    /\ InstallPath(i).ok
    /\ \E ioerror \in BOOLEAN :
        IF ioerror
        THEN /\ fault' = [fault EXCEPT ![i] = "open"]
             /\ Fail(i, "Io")
             /\ UNCHANGED <<fs, fsops>>
        ELSE /\ fs' = [fs EXCEPT ![InstallPath(i).path] = Truncate(@)]
             /\ fsops' = [fsops EXCEPT ![i] = 1]
             /\ upc' = [upc EXCEPT ![i] = "write"]
             /\ UNCHANGED <<fault, err, pb>>
    /\ UNCHANGED <<mainpc, cfgfile, config, next, body, dl, data, decoded, fs0, hvars>>

\* fs::write, second half: the bytes are written
install_write(i) ==
    /\ Running
    /\ upc[i] = "write"
    /\ \E ioerror \in BOOLEAN :
        IF ioerror
        THEN /\ fault' = [fault EXCEPT ![i] = "write"]
             /\ Fail(i, "Io")
             /\ UNCHANGED <<fs, fsops>>
        ELSE /\ fs' = [fs EXCEPT ![InstallPath(i).path].content = Overwrite(@, data[i])]
             /\ fsops' = [fsops EXCEPT ![i] = 2]
             /\ upc' = [upc EXCEPT ![i] = "chmod"]
             /\ UNCHANGED <<fault, err, pb>>
    /\ UNCHANGED <<mainpc, cfgfile, config, next, body, dl, data, decoded, fs0, hvars>>

\* set_permissions, then install and install_package return Ok(())
install_chmod(i) ==
    /\ Running
    /\ upc[i] = "chmod"
    /\ \E ioerror \in BOOLEAN :
        IF ioerror
        THEN /\ fault' = [fault EXCEPT ![i] = "chmod"]
             /\ Fail(i, "Io")
             /\ UNCHANGED <<fs, fsops>>
        ELSE /\ fs' = [fs EXCEPT ![InstallPath(i).path] =
                          SetPermissions(@, fs0[InstallPath(i).path])]
             /\ fsops' = [fsops EXCEPT ![i] = 3]
             /\ upc' = [upc EXCEPT ![i] = "done"]
             /\ UNCHANGED <<fault, err, pb>>
    /\ UNCHANGED <<mainpc, cfgfile, config, next, body, dl, data, decoded, fs0, hvars>>

(***************************************************************************)
(* The program                                                             *)
(***************************************************************************)
\* the steps of the thread of package i
UnitStep(i) ==
    \/ download_send(i)
    \/ download_body(i)
    \/ install_package_unsupported(i)
    \/ install_package_extract(i)
    \/ install_path_fails(i)
    \/ install_open(i)
    \/ install_write(i)
    \/ install_chmod(i)

Next ==
    \/ main_config_fails
    \/ main_config_parsed
    \/ setup_spawn
    \/ setup_spawned_all
    \/ setup_join
    \/ setup_returns
    \/ \E i \in Units :
        \/ download_send(i)
        \/ download_body(i)
        \/ install_package_unsupported(i)
        \/ install_package_extract(i)
        \/ install_path_fails(i)
        \/ install_open(i)
        \/ install_write(i)
        \/ install_chmod(i)

Spec == Init /\ [][Next]_vars

(***************************************************************************)
(* get_install_path on its own: the inputs are drawn from the paths of at  *)
(* most MaxComponents components and the function is applied once.         *)
(***************************************************************************)
MaxComponents == 2

Components == {"~", "~bob", "~eve", "bin"}

RelativePaths == UNION {[1..n -> Components] : n \in 1..MaxComponents}

AllPaths == RelativePaths \cup {<<"/">> \o p : p \in RelativePaths}

Homes == {HomeDir, <<"/", "root">>, NoHome}

InitPath ==
    /\ ProgramAt("off")
    /\ hpc = "call"
    /\ hin \in [home : Homes, location : AllPaths, name : AllPaths]
    /\ hout = <<>>

call_get_install_path ==
    /\ hpc = "call"
    /\ hout' = get_install_path(hin.home, hin.location, hin.name)
    /\ hpc' = "returned"
    /\ UNCHANGED <<mainpc, cfgfile, config, next, unitvars, fs, fs0, hin>>

NextPath == call_get_install_path

SpecPath == InitPath /\ [][NextPath]_vars

(***************************************************************************)
(* install on its own, called twice in a row with the same arguments on a  *)
(* file in any prior state; between the calls the mode may be changed from *)
(* outside.                                                                *)
(***************************************************************************)
MaxData == 2

Modes == {256, 384, 420, Mode755}

DataSet == UNION {[1..n -> {1, 2}] : n \in 0..MaxData}

PriorFiles == {Absent} \cup [exists : {TRUE}, content : DataSet, mode : Modes]

InitInstall ==
    /\ ProgramAt("off")
    /\ hpc = "open1"
    /\ hin \in [data : DataSet, before : PriorFiles]
    /\ hout = [file |-> hin.before, first |-> Absent, before2 |-> Absent]

\* fs::write, first half, of the first or the second call
call_install_open ==
    /\ hpc \in {"open1", "open2"}
    /\ \E ioerror \in BOOLEAN :
        IF ioerror
        THEN hpc' = "failed" /\ hout' = hout
        ELSE /\ hpc' = IF hpc = "open1" THEN "write1" ELSE "write2"
             /\ hout' = [hout EXCEPT !.file = Truncate(@)]
    /\ UNCHANGED <<mainpc, cfgfile, config, next, unitvars, fs, fs0, hin>>

call_install_write ==
    /\ hpc \in {"write1", "write2"}
    /\ \E ioerror \in BOOLEAN :
        IF ioerror
        THEN hpc' = "failed" /\ hout' = hout
        ELSE /\ hpc' = IF hpc = "write1" THEN "chmod1" ELSE "chmod2"
             /\ hout' = [hout EXCEPT !.file.content = Overwrite(@, hin.data)]
    /\ UNCHANGED <<mainpc, cfgfile, config, next, unitvars, fs, fs0, hin>>

\* set_permissions; the first call returns and its result is kept
call_install_chmod ==
    /\ hpc \in {"chmod1", "chmod2"}
    /\ \E ioerror \in BOOLEAN :
        IF ioerror
        THEN hpc' = "failed" /\ hout' = hout
        ELSE LET f == SetPermissions(hout.file,
                        IF hpc = "chmod1" THEN hin.before ELSE hout.before2) IN
             /\ hpc' = IF hpc = "chmod1" THEN "between" ELSE "twice"
             /\ hout' = IF hpc = "chmod1"
                        THEN [hout EXCEPT !.file = f, !.first = f]
                        ELSE [hout EXCEPT !.file = f]
    /\ UNCHANGED <<mainpc, cfgfile, config, next, unitvars, fs, fs0, hin>>

\* between the calls the user may change the mode of the installed file
between_installs ==
    /\ hpc = "between"
    /\ \E m \in Modes :
        hout' = [hout EXCEPT !.file.mode = m, !.before2 = [hout.file EXCEPT !.mode = m]]
    /\ hpc' = "open2"
    /\ UNCHANGED <<mainpc, cfgfile, config, next, unitvars, fs, fs0, hin>>

NextInstall ==
    \/ call_install_open
    \/ call_install_write
    \/ call_install_chmod
    \/ between_installs

SpecInstall == InitInstall /\ [][NextInstall]_vars

(***************************************************************************)
(* Vocabulary of the properties                                            *)
(***************************************************************************)
IsArchive(i) == Packages[i].kind = "Archive"

Kind(i) == container_kind(Packages[i].url)

\* the entries of an archive stored under exactly the name bin
Named(items, bin) ==
    {k \in 1..Len(items) : items[k].hdrok /\ items[k].path = bin}

First(S) == CHOOSE k \in S : \A j \in S : k <= j

Last(S) == CHOOSE k \in S : \A j \in S : j <= k

\* every header of the archive can be read
Readable(items) == items # <<>> /\ \A k \in 1..Len(items) : items[k].hdrok

\* the archive is intact and holds an entry named bin
IntactWith(items, bin) ==
    /\ Readable(items)
    /\ \A k \in 1..Len(items) : items[k].dataok
    /\ Named(items, bin) # {}

\* the payload the package is meant to install, once the server has answered
Artifact(i) ==
    IF ~IsArchive(i) THEN body[i]
    ELSE IF Named(body[i], Packages[i].bin) = {} THEN <<>>
    ELSE IF ends_with(Packages[i].url, TarGz)
         THEN body[i][First(Named(body[i], Packages[i].bin))].data
         ELSE body[i][Last(Named(body[i], Packages[i].bin))].data

\* the environment gave unit j no reason to fail
Healthy(j) ==
    /\ fault[j] = "none"
    /\ body[j] # <<>>
    /\ InstallPath(j).ok
    /\ IsArchive(j) =>
        /\ Packages[j].url.suffix \in {TarGz, Zip}
        /\ IntactWith(body[j], Packages[j].bin)

\* no other unit touches the file of unit j
OwnFile(j) ==
    \A k \in Launched \ {j} : name(Packages[k]) = name(Packages[j]) => fsops[k] = 0

Installed(j) ==
    /\ upc[j] = "done"
    /\ fsops[j] = 3
    /\ pb[j].finished
    /\ pb[j].msg = Msg("Downloaded", name(Packages[j]), "")
    /\ OwnFile(j) =>
        fs[InstallPath(j).path] =
            [exists |-> TRUE, content |-> Artifact(j), mode |-> Mode755]

\* the bar of unit i is finished with an error message naming the package
ShowsError(i) ==
    /\ pb[i].finished
    /\ pb[i].msg.kind = "Error"
    /\ pb[i].msg.name = name(Packages[i])

\* the extraction found an entry and handed its bytes to install
EntryFound(i) ==
    /\ decoded[i]
    /\ \/ upc[i] \in {"open", "write", "chmod", "done"}
       \/ upc[i] = "failed" /\ err[i] \in {"Io", "PathResolution"}

(***************************************************************************)
(* Properties                                                              *)
(***************************************************************************)

\* C1: failure isolation.  A unit whose fetch gets a non-successful status
\* gets an error from the fetch and never bytes, writes nothing and ends
\* with its bar finished on an error message naming its package; every
\* other unit that the environment gives no reason to fail ends installed
\* with its bar on "Downloaded <name>", and setup returns with all of them
\* installed.
FailureIsolation ==
    \A i \in Launched :
        fault[i] = "status" =>
            /\ dl[i] = [st |-> "err", bytes |-> <<>>]
            /\ upc[i] = "failed"
            /\ err[i] = "Status"
            /\ ShowsError(i)
            /\ fsops[i] = 0
            /\ \A j \in Launched \ {i} :
                /\ Healthy(j) /\ upc[j] \in Terminal => Installed(j)
                /\ Healthy(j) /\ mainpc = "exited" => Installed(j)

FailureIsolationWitness ==
    \E i, j \in Launched :
        /\ i < j
        /\ mainpc = "exited"
        /\ fault[i] = "status"
        /\ upc[i] = "failed"
        /\ Healthy(j)
        /\ upc[j] = "done"
        /\ name(Packages[i]) = name(Packages[j])

\* C2: every error of a unit is caught at the unit's boundary: a unit that
\* ends without installing ends with its bar finished on an error message
\* naming its package, no unit ends by a panic, and once the configuration
\* is read the main thread never panics.
ErrorsCaught ==
    /\ cfgfile = "ok" => mainpc # "panicked"
    /\ \A i \in Launched :
        /\ upc[i] # "panicked"
        /\ upc[i] = "failed" => ShowsError(i)

\* C3: join-all.  Once setup has returned or the process has exited, every
\* launched unit has reached a terminal state.
JoinAll ==
    mainpc \in {"exited", "panicked"} =>
        \A i \in Launched : upc[i] \in Terminal

\* C4: installed payload.  When a unit has finished successfully and no
\* other unit writes the same file, the file at the resolved destination
\* holds exactly the artifact bytes and has mode rwxr-xr-x.
InstalledPayload ==
    \A i \in Launched :
        upc[i] = "done" /\ OwnFile(i) =>
            fs[InstallPath(i).path] =
                [exists |-> TRUE, content |-> Artifact(i), mode |-> Mode755]

\* C5: the fetch returns bytes only when it has the complete body: an I/O
\* error while reading the body makes the fetch return an error, and the
\* unit writes nothing.
CompleteBody ==
    \A i \in Launched :
        /\ dl[i].st = "ok" => dl[i].bytes = body[i]
        /\ fault[i] = "bodyio" => dl[i].st = "err" /\ fsops[i] = 0

\* C6: exact-match lookup.  The bytes a tar.gz extraction hands to install
\* are those of the first entry, in stored order, whose path equals bin;
\* those of a zip extraction are those of an entry whose path equals bin;
\* when no entry has exactly that name nothing is handed to install and no
\* file is touched, and if the archive is readable the unit ends with the
\* entry-not-found error.
ExactMatch ==
    \A i \in Launched :
        decoded[i] =>
            LET items == dl[i].bytes
                N == Named(items, Packages[i].bin)
            IN  /\ EntryFound(i) /\ Kind(i) = "tar" =>
                    N # {} /\ data[i] = items[First(N)].data
                /\ EntryFound(i) /\ Kind(i) = "zip" =>
                    \E k \in N : data[i] = items[k].data
                /\ N = {} =>
                    /\ ~EntryFound(i)
                    /\ data[i] = <<>>
                    /\ fsops[i] = 0
                    /\ upc[i] \in {"failed", "panicked"}
                    /\ Readable(items) =>
                        upc[i] = "failed" /\ err[i] = "EntryNotFound" /\ ShowsError(i)

ExactMatchWitness ==
    \E i, j \in Launched :
        /\ Kind(i) = "tar" /\ decoded[i] /\ upc[i] = "done"
        /\ Len(dl[i].bytes) = 4
        /\ First(Named(dl[i].bytes, Packages[i].bin)) = 3
        /\ Kind(j) = "zip" /\ decoded[j] /\ upc[j] = "failed"
        /\ Readable(dl[j].bytes)
        /\ Named(dl[j].bytes, Packages[j].bin) = {}

Unsupported(i) ==
    IsArchive(i) /\ Packages[i].url.suffix \notin {TarGz, Zip}

\* C7 as stated: a unit of an archive package with an unsupported suffix
\* always ends with the unsupported-format error, without decoding and
\* without writing.
UnsupportedAlways ==
    \A i \in Launched :
        Unsupported(i) /\ upc[i] \in Terminal =>
            /\ upc[i] = "failed"
            /\ err[i] = "Unsupported"
            /\ ~decoded[i]
            /\ fsops[i] = 0

\* C7 as amended: such a unit never decodes and never writes, and it ends
\* with an error: the unsupported-format error when the fetch returned
\* bytes, the error of the fetch otherwise.
UnsupportedAfterFetch ==
    \A i \in Launched :
        Unsupported(i) =>
            /\ ~decoded[i]
            /\ fsops[i] = 0
            /\ data[i] = <<>>
            /\ upc[i] \in {"unspawned", "send", "body", "extract", "failed"}
            /\ upc[i] = "failed" =>
                /\ ShowsError(i)
                /\ dl[i].st = "ok" => err[i] = "Unsupported"
                /\ dl[i].st = "err" => err[i] \in {"Http", "Status", "NoContentLength"}
                /\ dl[i].st # "none"

UnsupportedWitness ==
    \E i \in Launched :
        /\ Unsupported(i)
        /\ upc[i] = "failed"
        /\ dl[i].st = "ok"
        /\ dl[i].bytes # <<>>
        /\ err[i] = "Unsupported"

\* C8: path resolution.  For a location whose first component is ~ and any
\* name, with the home directory of the current user known,
\* get_install_path returns that home directory joined with the rest of the
\* location and then with the name; for a relative name that is the home
\* directory followed by the rest of the location and by the name.
PathResolution ==
    hpc = "returned" /\ hin.location[1] = "~" /\ hin.home # NoHome =>
        /\ hout = OkPath(Join(Join(hin.home, Tail(hin.location)), hin.name))
        /\ ~IsAbsolute(hin.name) =>
            hout.path = hin.home \o Tail(hin.location) \o hin.name

PathResolutionWitness ==
    /\ hpc = "returned"
    /\ hin.location = <<"~", "bin">>
    /\ hin.name = <<"bin">>
    /\ hin.home = HomeDir
    /\ hout = OkPath(<<"/", "home", "me", "bin", "bin">>)

\* C9: idempotence of install.  Each of two successful calls of install
\* with the same bytes leaves the file holding exactly those bytes with
\* mode rwxr-xr-x, whatever the file held and whatever its mode was before
\* each call, so the file is the same after both.
IdempotentInstall ==
    LET installed == [exists |-> TRUE, content |-> hin.data, mode |-> Mode755] IN
    /\ hpc \in {"between", "open2", "write2", "chmod2", "twice"} => hout.first = installed
    /\ hpc = "twice" => hout.file = installed /\ hout.file = hout.first

IdempotentInstallWitness ==
    /\ hpc = "twice"
    /\ hin.before.exists
    /\ hin.before.mode = 256
    /\ Len(hin.before.content) > Len(hin.data)
    /\ hout.before2.mode = 384

\* C10: startup errors are fatal before any work.  When the config file is
\* missing, unreadable or does not parse the main thread has panicked, no
\* unit was launched, no fetch was issued and no file was written.
StartupFatal ==
    cfgfile \in {"missing", "unreadable", "unparsable"} =>
        /\ mainpc = "panicked"
        /\ fs = fs0
        /\ \A i \in Units :
            /\ upc[i] = "unspawned"
            /\ dl[i] = NoDl
            /\ fault[i] = "none"
            /\ fsops[i] = 0

StartupFatalWitness ==
    /\ cfgfile = "unparsable"
    /\ mainpc = "panicked"
    /\ fs0 = [p \in FsPaths |-> OldFile]

\* the units that have touched the file at path p
Writers(p) ==
    {i \in Launched : InstallPath(i).ok /\ InstallPath(i).path = p /\ fsops[i] > 0}

\* the fetch or the extraction of unit i has failed: download_with_progress
\* returned an error, the extraction returned one, or the thread panicked
\* while extracting
FailedBeforeInstall(i) ==
    \/ dl[i].st = "err"
    \/ upc[i] = "panicked"
    \/ upc[i] = "failed"
        /\ err[i] \in {"Unsupported", "EntryNotFound", "Corrupt", "EntryRead"}

EagerIndependent ==
    /\ mainpc = "join" => \A i \in Launched : upc[i] # "unspawned"
    /\ \A j \in Launched :
        /\ upc[j] # "unspawned"
        /\ \E i \in Launched \ {j} : upc[i] \in {"send", "body"}
        /\ ~ENABLED UnitStep(j)
        => upc[j] \in {"done", "failed"}

\* the units of the packages named n
Sharing(n) == {i \in Launched : name(Packages[i]) = n}

\* at least two packages are named n and the units of all of them succeeded
DuplicatesDone(n) ==
    /\ mainpc = "exited"
    /\ Cardinality(Sharing(n)) >= 2
    /\ \A i \in Sharing(n) : upc[i] = "done"

\* C13: duplicate names are last-writer-wins.  When packages share a name
\* and their units succeed, the file holds, once setup has returned, exactly
\* the bytes one of those units installed, never a mixture.
DuplicateLastWriterWins ==
    \A n \in Names :
        DuplicatesDone(n) =>
            \E i \in Sharing(n) :
                fs[InstallPath(i).path] =
                    [exists |-> TRUE, content |-> data[i], mode |-> Mode755]

\* C14: progress of one fetch.  The position of a bar never decreases; it
\* moves only while the body is read, after the total was set to the content
\* length, and the total does not change once a position was reported; when
\* the fetch returns bytes the position is the number of bytes returned.
ProgressOrder ==
    [][\A i \in DOMAIN pb :
        /\ pb'[i].pos >= pb[i].pos
        /\ pb'[i].pos # pb[i].pos =>
            /\ upc[i] = "body"
            /\ pb[i].len = Size(body[i])
            /\ pb[i].len > 0
            /\ pb'[i].len = pb[i].len
        /\ pb[i].pos > 0 => pb'[i].len = pb[i].len
        /\ dl'[i].st = "ok" => pb'[i].pos = Len(dl'[i].bytes)]_vars

ProgressOrderWitness ==
    \E i \in Launched :
        /\ dl[i].st = "ok"
        /\ dl[i].bytes = body[i]
        /\ Len(dl[i].bytes) = MaxData
        /\ pb[i].len = MaxData
        /\ pb[i].pos = MaxData

\* C15: a response without content length makes the fetch fail before any
\* byte of the body is read: nothing is reported, nothing is written, and the
\* bar ends with the error.
MissingLength ==
    \A i \in Launched :
        fault[i] = "nolen" =>
            /\ upc[i] = "failed"
            /\ err[i] = "NoContentLength"
            /\ dl[i] = [st |-> "err", bytes |-> <<>>]
            /\ body[i] = <<>>
            /\ pb[i].pos = 0
            /\ data[i] = <<>>
            /\ ~decoded[i]
            /\ fsops[i] = 0
            /\ ShowsError(i)
            /\ pb[i].msg.err = "NoContentLength"
            /\ InstallPath(i).ok /\ Writers(InstallPath(i).path) = {} =>
                fs[InstallPath(i).path] = fs0[InstallPath(i).path]

MissingLengthWitness ==
    \E i, j \in Launched :
        /\ mainpc = "exited"
        /\ fault[i] = "nolen"
        /\ upc[i] = "failed"
        /\ InstallPath(i).ok
        /\ fs[InstallPath(i).path] = Absent
        /\ upc[j] = "done"

\* the bar of unit i shows "Downloaded <name>"
ShowsDownloaded(i) ==
    /\ pb[i].finished
    /\ pb[i].msg = Msg("Downloaded", name(Packages[i]), "")

\* unit i wrote its payload and set the mode
WrotePayload(i) ==
    /\ upc[i] = "done"
    /\ fsops[i] = 3
    /\ data[i] = Artifact(i)

\* C16: indicator and outcome agree at the end.  The bar shows "Downloaded
\* <name>" from the moment the fetch has returned bytes; once setup has
\* returned, the bar of a unit shows "Downloaded <name>" exactly when the
\* unit wrote its payload and set the mode, and an error otherwise; an error
\* shown is never replaced.
IndicatorAgrees ==
    /\ [](\A i \in Launched :
            /\ dl[i].st = "ok" /\ upc[i] \in {"extract", "open", "write", "chmod"}
                => ShowsDownloaded(i)
            /\ mainpc = "exited" =>
                /\ ShowsDownloaded(i) <=> WrotePayload(i)
                /\ ~WrotePayload(i) => ShowsError(i))
    /\ [][\A i \in DOMAIN pb :
            pb[i].msg.kind = "Error" => pb'[i].msg = pb[i].msg]_vars

====
